---- MODULE Spec2Model ----
(***************************************************************************)
(* Model of the deterministic equipment-text parser of src/parsing.py:     *)
(* parse_query (brand / model / raw_options extraction) and                *)
(* split_options_deterministic (slash splitting of the options span).      *)
(*                                                                         *)
(* A Python str is a sequence of one-character strings.  Indices held in   *)
(* variables are Python's 0-based indices; At and Slice translate them.    *)
(***************************************************************************)
EXTENDS Integers, Sequences, FiniteSets, TLC

VARIABLES text, pc, slash_index, current_pos, options_end_index, result,
          raw_options, options,
          row, api_key, n_pc, completion, llm_result, payload, calls,
          selected_index, analysis_key, analysis_payload, displayed

\* the state of the page: the selected table row, the two session_state
\* entries of the analysis, and the record the page shows
uvars == <<selected_index, analysis_key, analysis_payload, displayed>>

\* the state of one run of the analysis step of main
nvars == <<row, api_key, n_pc, completion, llm_result, payload, calls>>

\* the state of parse_query and split_options_deterministic
pvars == <<text, pc, slash_index, current_pos, options_end_index, result,
           raw_options, options>>

vars == <<text, pc, slash_index, current_pos, options_end_index, result,
          raw_options, options,
          row, api_key, n_pc, completion, llm_result, payload, calls,
          selected_index, analysis_key, analysis_payload, displayed>>

(***************************************************************************)
(* Python str primitives                                                   *)
(***************************************************************************)

\* characters str.strip() and str.split() treat as whitespace
WhiteSpace == {" ", "\t", "\n"}

IsSpace(c) == c \in WhiteSpace

\* s[i] with a 0-based index
At(s, i) == s[i + 1]

\* s[i:j] with 0-based, end-exclusive indices
Slice(s, i, j) == SubSeq(s, i + 1, j)

RECURSIVE LStrip(_)
LStrip(s) == IF s # <<>> /\ IsSpace(Head(s)) THEN LStrip(Tail(s)) ELSE s

RECURSIVE RStrip(_)
RStrip(s) ==
    IF s # <<>> /\ IsSpace(s[Len(s)])
    THEN RStrip(SubSeq(s, 1, Len(s) - 1))
    ELSE s

\* str.strip()
Strip(s) == RStrip(LStrip(s))

\* str.find(c, start): lowest 0-based index >= start holding c, else -1
Find(s, c, start) ==
    LET hits == {i \in start..(Len(s) - 1) : At(s, i) = c}
    IN  IF hits = {} THEN -1
        ELSE CHOOSE i \in hits : \A j \in hits : i <= j

\* str.startswith(c) for a one-character prefix
StartsWith(s, c) == s # <<>> /\ Head(s) = c

\* str.split(): maximal runs of non-whitespace characters
RECURSIVE Split(_)
Split(s) ==
    LET t == LStrip(s)
        ws == {i \in 1..Len(t) : IsSpace(t[i])}
        n == IF ws = {} THEN Len(t) + 1
             ELSE CHOOSE i \in ws : \A j \in ws : i <= j
    IN  IF t = <<>> THEN <<>>
        ELSE <<SubSeq(t, 1, n - 1)>> \o Split(SubSeq(t, n, Len(t)))

\* str.split(d): every fragment between delimiters, empty ones included
RECURSIVE SplitOn(_, _)
SplitOn(s, d) ==
    LET i == Find(s, d, 0)
    IN  IF i = -1 THEN <<s>>
        ELSE <<Slice(s, 0, i)>> \o SplitOn(Slice(s, i + 1, Len(s)), d)

UpperToLower ==
    [c \in {"A", "B", "C", "D", "E", "F", "G", "H", "I", "J", "K", "L", "M",
            "N", "O", "P", "Q", "R", "S", "T", "U", "V", "W", "X", "Y", "Z"} |->
        CASE c = "A" -> "a" [] c = "B" -> "b" [] c = "C" -> "c"
          [] c = "D" -> "d" [] c = "E" -> "e" [] c = "F" -> "f"
          [] c = "G" -> "g" [] c = "H" -> "h" [] c = "I" -> "i"
          [] c = "J" -> "j" [] c = "K" -> "k" [] c = "L" -> "l"
          [] c = "M" -> "m" [] c = "N" -> "n" [] c = "O" -> "o"
          [] c = "P" -> "p" [] c = "Q" -> "q" [] c = "R" -> "r"
          [] c = "S" -> "s" [] c = "T" -> "t" [] c = "U" -> "u"
          [] c = "V" -> "v" [] c = "W" -> "w" [] c = "X" -> "x"
          [] c = "Y" -> "y" [] c = "Z" -> "z"]

\* str.lower()
Lower(w) ==
    [i \in 1..Len(w) |->
        IF w[i] \in DOMAIN UpperToLower THEN UpperToLower[w[i]] ELSE w[i]]

(***************************************************************************)
(* The connecting-word lists of parse_query                                *)
(***************************************************************************)

\* the list literal of the no-slash path
ConnectingWordsNoSlash ==
    {<<"w", "i", "t", "h">>, <<"o", "p", "t", "i", "o", "n", "s">>, <<"o", "p", "t", "i", "o", "n">>, <<"l", "i", "k", "e">>, <<"s", "u", "c", "h">>, <<"a", "s">>,
     <<"e", "n", "t", "e", "r">>, <<"a">>, <<"q", "u", "e", "r", "y">>, <<"l", "i", "k", "e">>}

\* bug variant: the slash path's list lost two of its words
ConnectingWordsSlashShort ==
    {<<"o", "p", "t", "i", "o", "n", "s">>, <<"o", "p", "t", "i", "o", "n">>, <<"l", "i", "k", "e">>, <<"s", "u", "c", "h">>, <<"a", "s">>,
     <<"e", "n", "t", "e", "r">>, <<"q", "u", "e", "r", "y">>, <<"l", "i", "k", "e">>}

\* the list literal of the slash path
ConnectingWordsSlash ==
    {<<"w", "i", "t", "h">>, <<"o", "p", "t", "i", "o", "n", "s">>, <<"o", "p", "t", "i", "o", "n">>, <<"l", "i", "k", "e">>, <<"s", "u", "c", "h">>, <<"a", "s">>,
     <<"e", "n", "t", "e", "r">>, <<"a">>, <<"q", "u", "e", "r", "y">>, <<"l", "i", "k", "e">>}

\* the words the parsing rules of SYSTEM_PROMPT tell the collaborator to
\* ignore; the documented stop-word set
IgnoreWords ==
    {<<"e", "n", "t", "e", "r">>, <<"a">>, <<"q", "u", "e", "r", "y">>, <<"l", "i", "k", "e">>, <<"w", "i", "t", "h">>, <<"o", "p", "t", "i", "o", "n", "s">>,
     <<"o", "p", "t", "i", "o", "n">>, <<"s", "u", "c", "h">>, <<"a", "s">>, <<"t", "h", "e">>, <<"i", "s">>, <<"h", "a", "s">>, <<"t", "o">>,
     <<"b", "e">>, <<"d", "e", "l", "i", "v", "e", "r", "e", "d">>, <<"s", "o", "o", "n">>, <<"p", "l", "e", "a", "s", "e">>, <<"n", "e", "e", "d">>, <<"w", "a", "n", "t">>,
     <<"f", "i", "n", "d">>, <<"s", "e", "a", "r", "c", "h">>, <<"l", "o", "o", "k", "i", "n", "g">>, <<"f", "o", "r">>}

\* [word for word in words if word.lower() not in [...]]
filtered_words(words, connecting) ==
    SelectSeq(words, LAMBDA word : Lower(word) \notin connecting)

\* filtered_words[0] if filtered_words else ""
brand_of(fw) == IF fw # <<>> THEN fw[1] ELSE <<>>

\* filtered_words[1] if len(filtered_words) > 1 else ""
model_of(fw) == IF Len(fw) > 1 THEN fw[2] ELSE <<>>

(***************************************************************************)
(* split_options_deterministic                                             *)
(***************************************************************************)

\* the for loop: strip each fragment, append it when non-empty
RECURSIVE CleanOptions(_)
CleanOptions(frags) ==
    IF frags = <<>> THEN <<>>
    ELSE LET option == Strip(Head(frags))
         IN  (IF option # <<>> THEN <<option>> ELSE <<>>)
                 \o CleanOptions(Tail(frags))

\* bug variant: fragments are appended without being stripped or dropped
split_options_unfiltered(x) ==
    IF x.none \/ x.s = <<>> THEN <<>> ELSE SplitOn(x.s, "/")

\* bug variant: fragments are not stripped before the emptiness test
split_options_unstripped(x) ==
    IF x.none \/ x.s = <<>> THEN <<>>
    ELSE SelectSeq(SplitOn(x.s, "/"), LAMBDA f : f # <<>>)

\* x is the argument: x.none when it is None, else the str x.s
split_options_deterministic(x) ==
    IF x.none \/ x.s = <<>> THEN <<>> ELSE CleanOptions(SplitOn(x.s, "/"))

(***************************************************************************)
(* Inputs                                                                  *)
(***************************************************************************)

MaxLen == 4

Alphabet == {"/", " ", "\t", "a", "A", "s", "x"}

\* every string over Alphabet of length at most n
Strings(n) == UNION {[1..k -> Alphabet] : k \in 0..n}

AgilentQuery == <<"A", "g", "i", "l", "e", "n", "t", " ", "8", "1", "1", "6", "A", " ", "/", "1", "6", "0", "/", "E", "E", "C", "/", "P", "L", "K", "/", "U", "K", "6", " ", "h", "a", "s", " ", "t", "o", " ", "b", "e", " ", "d", "e", "l", "i", "v", "e", "r", "e", "d", " ", "s", "o", "o", "n">>

AgilentWithQuery ==
    <<"A", "g", "i", "l", "e", "n", "t", " ", "8", "1", "1", "6", "A", " ", "w", "i", "t", "h", " ", "o", "p", "t", "i", "o", "n", "s", " ", "l", "i", "k", "e", " ", "1", "6", "0", "/", "E", "E", "C", "/", "P", "L", "K", "/", "U", "K", "6", " ", "p", "l", "e", "a", "s", "e", " ", "d", "e", "l", "i", "v", "e", "r", " ", "q", "u", "i", "c", "k", "l", "y">>

TektronixQuery == <<"e", "n", "t", "e", "r", " ", "a", " ", "q", "u", "e", "r", "y", " ", "l", "i", "k", "e", " ", "T", "e", "k", "t", "r", "o", "n", "i", "x", " ", "T", "D", "S", "7", "4", "4", "A">>

Heads ==
    {<<>>, <<"H", "P", " ", "8", "A", " ">>, <<"H", "P", " ", "8", "A">>, <<"w", "i", "t", "h", " ", "H", "P", " ", "8", "A", " ">>, <<"W", "I", "T", "H", " ", "H", "p", " ", "8", "a", " ">>,
     <<"t", "h", "e", " ", "H", "P", " ", "8", "A", " ">>, <<"T", "H", "E", " ", "H", "P", " ">>, <<"h", "a", "s", " ">>, <<"W", "i", "t", "h", " ">>, <<"t", "o", " ", "b", "e", " ">>,
     <<"H", "P", " ", "8", "A", " ", "w", "i", "t", "h", " ", "o", "p", "t", "i", "o", "n", "s", " ", "l", "i", "k", "e", " ", "1", "6">>}

Spans == {<<>>, <<"/", "1", "6", "/", "E">>, <<"/", "1", "6", "/", "E", "/">>, <<"/", "1", "6", " ", "/", "E">>, <<"/">>, <<"/", "1", "6", "/", "1", "6">>}

Tails == {<<>>, <<" ", "h", "a", "s", " ", "t", "o", " ", "b", "e">>, <<" ", "s", "o", "o", "n">>, <<"\t", "s", "o", "o", "n">>, <<"\n", "s", "o", "o", "n", " ", "n", "o", "w">>, <<" ">>}

Inputs ==
    Strings(MaxLen)
        \cup {h \o s \o t : h \in Heads, s \in Spans, t \in Tails}
        \cup {AgilentQuery, AgilentWithQuery, TektronixQuery}

(***************************************************************************)
(* JSON values, as json.loads builds them and as main updates them         *)
(***************************************************************************)

\* a dict: val maps its keys to values
Obj(f) == [type |-> "object", val |-> f]

\* a list
Arr(s) == [type |-> "array", val |-> s]

\* a str
Str(s) == [type |-> "string", val |-> s]

\* an int or float
Num == [type |-> "number", val |-> 0]

\* None
Null == [type |-> "null", val |-> 0]

\* {}
EmptyObj == Obj([k \in {} |-> Null])

\* d[k] = v on a dict
SetItem(d, k, v) ==
    Obj([j \in DOMAIN d.val \cup {k} |-> IF j = k THEN v ELSE d.val[j]])

\* a list of str
StrList(seq) == Arr([i \in 1..Len(seq) |-> Str(seq[i])])

\* no row selected, no call made
NoRow == [brand |-> <<>>, model |-> <<>>, options |-> <<>>]

NoCompletion == [kind |-> "none", content |-> [kind |-> "none", value |-> Null]]

NoLlmResult == [raised |-> FALSE, data |-> Null]

\* st.session_state.get("analysis_key") when nothing is stored: None
NoKey == [none |-> TRUE, s |-> <<>>]

(***************************************************************************)
(* State machine                                                           *)
(***************************************************************************)

NoResult == [brand |-> <<>>, model |-> <<>>, raw_options |-> <<>>]

NoArg == [none |-> TRUE, s |-> <<>>]

\* text = text.strip()
stripped == Strip(text)

Init ==
    /\ text \in Inputs
    /\ pc = "start"
    /\ slash_index = -1
    /\ current_pos = -1
    /\ options_end_index = -1
    /\ result = NoResult
    /\ raw_options = NoArg
    /\ options = <<>>
    /\ row = NoRow
    /\ api_key = FALSE
    /\ n_pc = "idle"
    /\ completion = NoCompletion
    /\ llm_result = NoLlmResult
    /\ payload = Null
    /\ calls = 0
    /\ selected_index = -1
    /\ analysis_key = NoKey
    /\ analysis_payload = Null
    /\ displayed = Null

\* parse_query, the text holds no slash
parse_query_no_slash ==
    /\ pc = "start"
    /\ Find(stripped, "/", 0) = -1
    /\ LET words == Split(stripped)
           fw == filtered_words(words, ConnectingWordsNoSlash)
       IN  result' = [brand |-> brand_of(fw), model |-> model_of(fw),
                      raw_options |-> <<>>]
    /\ pc' = "parsed"
    /\ UNCHANGED <<text, slash_index, current_pos, options_end_index,
                   raw_options, options>>
    /\ UNCHANGED nvars
    /\ UNCHANGED uvars

\* parse_query, a slash is found: the boundary scan starts at it
parse_query_slash ==
    /\ pc = "start"
    /\ Find(stripped, "/", 0) # -1
    /\ slash_index' = Find(stripped, "/", 0)
    /\ options_end_index' = slash_index'
    /\ current_pos' = slash_index'
    /\ pc' = "scan"
    /\ UNCHANGED <<text, result, raw_options, options>>
    /\ UNCHANGED nvars
    /\ UNCHANGED uvars

\* one iteration of the while loop that finds another slash
scan_next_slash ==
    /\ pc = "scan"
    /\ current_pos < Len(stripped)
    /\ Find(stripped, "/", current_pos + 1) # -1
    /\ current_pos' = Find(stripped, "/", current_pos + 1)
    /\ UNCHANGED <<text, pc, slash_index, options_end_index, result,
                   raw_options, options>>
    /\ UNCHANGED nvars
    /\ UNCHANGED uvars

\* bug variant: without a later space the span is cut after the last slash
end_of_options_cut(t, pos) ==
    LET next_space == Find(t, " ", pos)
        last_part == Strip(Slice(t, pos, next_space))
    IN  IF next_space # -1 /\ last_part # <<>> /\ ~StartsWith(last_part, "/")
        THEN next_space
        ELSE pos + 1

\* bug variant: a span of slashes only ends at the last slash, not after it
end_of_options_at_slash(t, pos) ==
    LET next_space == Find(t, " ", pos)
        last_part == Strip(Slice(t, pos, next_space))
    IN  IF next_space = -1 THEN Len(t)
        ELSE IF last_part # <<>> /\ ~StartsWith(last_part, "/")
             THEN next_space
             ELSE pos

\* the end-of-options boundary chosen once no further slash exists
end_of_options(t, pos) ==
    LET next_space == Find(t, " ", pos)
        last_part == Strip(Slice(t, pos, next_space))
    IN  IF next_space = -1 THEN Len(t)
        ELSE IF last_part # <<>> /\ ~StartsWith(last_part, "/")
             THEN next_space
             ELSE pos + 1

\* the iteration of the while loop that finds no further slash, and breaks
scan_break ==
    /\ pc = "scan"
    /\ current_pos < Len(stripped)
    /\ Find(stripped, "/", current_pos + 1) = -1
    /\ options_end_index' = end_of_options(stripped, current_pos)
    /\ pc' = "extract"
    /\ UNCHANGED <<text, slash_index, current_pos, result, raw_options,
                   options>>
    /\ UNCHANGED nvars
    /\ UNCHANGED uvars

\* bug variant: the last word before the slash is put in front of the span
parse_query_return_combined ==
    /\ (pc = "extract" \/ (pc = "scan" /\ ~(current_pos < Len(stripped))))
    /\ LET brand_model_part == Strip(Slice(stripped, 0, slash_index))
           brand_model_words == Split(brand_model_part)
           fw == filtered_words(brand_model_words, ConnectingWordsSlash)
           last_word == IF brand_model_words # <<>>
                        THEN brand_model_words[Len(brand_model_words)]
                        ELSE <<>>
           last_word_before_slash ==
               IF Lower(last_word) \notin ConnectingWordsSlash
               THEN last_word ELSE <<>>
           options_part ==
               Strip(Slice(stripped, slash_index, options_end_index))
       IN  result' = [brand |-> brand_of(fw), model |-> model_of(fw),
                      raw_options |-> last_word_before_slash \o options_part]
    /\ pc' = "parsed"
    /\ UNCHANGED <<text, slash_index, current_pos, options_end_index,
                   raw_options, options>>
    /\ UNCHANGED nvars
    /\ UNCHANGED uvars

\* bug variant: the span is returned without its leading slash
parse_query_return_bare ==
    /\ (pc = "extract" \/ (pc = "scan" /\ ~(current_pos < Len(stripped))))
    /\ LET brand_model_part == Strip(Slice(stripped, 0, slash_index))
           brand_model_words == Split(brand_model_part)
           fw == filtered_words(brand_model_words, ConnectingWordsSlash)
           options_part ==
               Strip(Slice(stripped, slash_index, options_end_index))
       IN  result' = [brand |-> brand_of(fw), model |-> model_of(fw),
                      raw_options |->
                          IF options_part # <<>> THEN Tail(options_part)
                          ELSE <<>>]
    /\ pc' = "parsed"
    /\ UNCHANGED <<text, slash_index, current_pos, options_end_index,
                   raw_options, options>>
    /\ UNCHANGED nvars
    /\ UNCHANGED uvars

\* the rest of parse_query after the loop (left by break or by its condition)
parse_query_return ==
    /\ (pc = "extract" \/ (pc = "scan" /\ ~(current_pos < Len(stripped))))
    /\ LET brand_model_part == Strip(Slice(stripped, 0, slash_index))
           brand_model_words == Split(brand_model_part)
           fw == filtered_words(brand_model_words, ConnectingWordsSlash)
           options_part ==
               Strip(Slice(stripped, slash_index, options_end_index))
       IN  result' = [brand |-> brand_of(fw), model |-> model_of(fw),
                      raw_options |-> options_part]
    /\ pc' = "parsed"
    /\ UNCHANGED <<text, slash_index, current_pos, options_end_index,
                   raw_options, options>>
    /\ UNCHANGED nvars
    /\ UNCHANGED uvars

\* split_options_deterministic(parse_query(text)["raw_options"])
split_parsed ==
    /\ pc = "parsed"
    /\ raw_options' = [none |-> FALSE, s |-> result.raw_options]
    /\ options' = split_options_deterministic(raw_options')
    /\ pc' = "extracted"
    /\ UNCHANGED <<text, slash_index, current_pos, options_end_index,
                   result>>
    /\ UNCHANGED nvars
    /\ UNCHANGED uvars

\* split_options_deterministic called on an arbitrary str, or on None
split_direct ==
    /\ pc = "start"
    /\ \E none \in BOOLEAN :
           raw_options' = [none |-> none, s |-> IF none THEN <<>> ELSE text]
    /\ options' = split_options_deterministic(raw_options')
    /\ pc' = "split"
    /\ UNCHANGED <<text, slash_index, current_pos, options_end_index,
                   result>>
    /\ UNCHANGED nvars
    /\ UNCHANGED uvars

Next ==
    \/ parse_query_no_slash
    \/ parse_query_slash
    \/ scan_next_slash
    \/ scan_break
    \/ parse_query_return
    \/ split_parsed
    \/ split_direct

Spec == Init /\ [][Next]_vars

TypeOK ==
    /\ pc \in {"start", "scan", "extract", "parsed", "extracted", "split"}
    /\ slash_index \in -1..Len(text)
    /\ current_pos \in -1..Len(text)
    /\ options_end_index \in -1..Len(text)
    /\ raw_options.none \in BOOLEAN

\* the whole of parse_query as a function of its argument
RECURSIVE last_slash_from(_, _)
last_slash_from(t, pos) ==
    LET next_slash == Find(t, "/", pos + 1)
    IN  IF next_slash = -1 THEN pos ELSE last_slash_from(t, next_slash)

parse_query(txt) ==
    LET t == Strip(txt)
        first == Find(t, "/", 0)
        fw_no_slash == filtered_words(Split(t), ConnectingWordsNoSlash)
        fw_slash == filtered_words(Split(Strip(Slice(t, 0, first))),
                                   ConnectingWordsSlash)
        end == end_of_options(t, last_slash_from(t, first))
    IN  IF first = -1
        THEN [brand |-> brand_of(fw_no_slash), model |-> model_of(fw_no_slash),
              raw_options |-> <<>>]
        ELSE [brand |-> brand_of(fw_slash), model |-> model_of(fw_slash),
              raw_options |-> Strip(Slice(t, first, end))]

(***************************************************************************)
(* The analysis step of main: normalisation of the selected row            *)
(***************************************************************************)

MaxOptLen == 3

MaxCalls == 2

\* d.join(seq)
RECURSIVE Join(_, _)
Join(seq, d) ==
    IF seq = <<>> THEN <<>>
    ELSE IF Len(seq) = 1 THEN seq[1]
    ELSE seq[1] \o <<d>> \o Join(Tail(seq), d)

\* sub in s, for two str
Contains(s, sub) ==
    \E i \in 0..(Len(s) - Len(sub)) : SubSeq(s, i + 1, i + Len(sub)) = sub

brand_parsed(r) == Strip(r.brand)

model_parsed(r) == Strip(r.model)

\* bug variant: options naming the brand or the model are kept
unfiltered_options(r) == CleanOptions(SplitOn(r.options, "/"))

\* bug variant: only options naming the brand are dropped
brand_filtered_options(r) ==
    SelectSeq(CleanOptions(SplitOn(r.options, "/")),
              LAMBDA opt : Lower(opt) # Lower(brand_parsed(r)))

\* the options of the row that are neither its brand nor its model
filtered_options(r) ==
    SelectSeq(CleanOptions(SplitOn(r.options, "/")),
              LAMBDA opt :
                  /\ Lower(opt) \notin {Lower(brand_parsed(r)),
                                        Lower(model_parsed(r))}
                  /\ Len(opt) > 0)

\* the local raw_options of main
main_raw_options(r) ==
    IF r.options # <<>> THEN Join(filtered_options(r), "/") ELSE <<>>

llm_input(r) ==
    IF main_raw_options(r) # <<>>
    THEN brand_parsed(r) \o <<" ">> \o model_parsed(r) \o <<" ">>
             \o main_raw_options(r)
    ELSE brand_parsed(r) \o <<" ">> \o model_parsed(r)

\* the payload built when there is no client
deterministic_payload(r) ==
    Obj([normalized |->
             Obj([brand |-> Str(brand_parsed(r)),
                  model |-> Str(model_parsed(r)),
                  options |-> StrList(split_options_deterministic(
                      [none |-> FALSE, s |-> main_raw_options(r)]))]),
         results |-> Arr(<<>>)])

\* the payload built by the except clause of main
except_payload(r) ==
    Obj([normalized |->
             Obj([brand |-> Str(brand_parsed(r)),
                  model |-> Str(model_parsed(r)),
                  options |-> Arr(<<>>)]),
         results |-> Arr(<<>>)])

\* the fallback structure of normalize_options_via_llm
Fallback ==
    Obj([normalized |->
             Obj([brand |-> Str(<<>>), model |-> Str(<<>>),
                  options |-> Arr(<<>>)]),
         results |-> Arr(<<>>)])

\* json.loads(content or "{}"): content is None or '', text that is no
\* JSON, or the text of a JSON value
json_loads(content) ==
    [ok |-> content.kind # "invalid",
     value |-> IF content.kind = "json" THEN content.value ELSE EmptyObj]

\* "normalized" in data; a TypeError for a number, a bool or None
has_normalized(data) ==
    CASE data.type = "object" ->
             [raised |-> FALSE, in |-> "normalized" \in DOMAIN data.val]
      [] data.type = "array" ->
             [raised |-> FALSE,
              in |-> \E i \in 1..Len(data.val) :
                         data.val[i] = Str(<<"n", "o", "r", "m", "a", "l", "i", "z", "e", "d">>)]
      [] data.type = "string" ->
             [raised |-> FALSE, in |-> Contains(data.val, <<"n", "o", "r", "m", "a", "l", "i", "z", "e", "d">>)]
      [] OTHER -> [raised |-> TRUE, in |-> FALSE]

\* what normalize_options_via_llm does with the outcome of the API call:
\* raised when an exception leaves the function, else data is returned
normalize_options_via_llm(c) ==
    IF c.kind = "raise" THEN [raised |-> TRUE, data |-> Null]
    ELSE LET loaded == json_loads(c.content)
             test == has_normalized(loaded.value)
         IN  IF ~loaded.ok \/ test.raised \/ ~test.in
             THEN [raised |-> FALSE, data |-> Fallback]
             ELSE [raised |-> FALSE, data |-> loaded.value]

\* bug variant: the two assignments are missing
keep_brand_model(p, b, m) == [raised |-> FALSE, payload |-> p]

\* payload["normalized"]["brand"] = b; payload["normalized"]["model"] = m
\* raised when the subscripting or the item assignment fails
set_brand_model(p, b, m) ==
    IF \/ p.type # "object"
       \/ "normalized" \notin DOMAIN p.val
       \/ p.val.normalized.type # "object"
    THEN [raised |-> TRUE, payload |-> p]
    ELSE [raised |-> FALSE,
          payload |-> SetItem(p, "normalized",
              SetItem(SetItem(p.val.normalized, "brand", Str(b)),
                      "model", Str(m)))]

\* the payload main holds after the try statement, given what the call to
\* normalize_options_via_llm did
final_payload(r, res) ==
    LET set == set_brand_model(res.data, brand_parsed(r), model_parsed(r))
    IN  IF res.raised \/ set.raised THEN except_payload(r) ELSE set.payload

\* bug variant: a failed call is made again
retry_after_llm(res) == IF res.raised THEN "start" ELSE "returned"

\* where main goes on after normalize_options_via_llm: the try statement has
\* no loop, the call is not repeated
after_llm(res) == "returned"

\* rows of the equipment table
E4980A == [brand |-> <<"A", "g", "i", "l", "e", "n", "t">>, model |-> <<"E", "4", "9", "8", "0", "A">>,
           options |-> <<"0", "0", "1", "/", "7", "1", "0", "/", "7", "1", "0">>]

HP33120A == [brand |-> <<"A", "g", "i", "l", "e", "n", "t", " ", "/", " ", "H", "P">>, model |-> <<"3", "3", "1", "2", "0", "A">>,
             options |-> <<"/", "0", "0", "1">>]

Agilent16555D == [brand |-> <<"A", "g", "i", "l", "e", "n", "t">>, model |-> <<"1", "6", "5", "5", "5", "D">>,
                  options |-> <<"W", " ", "C", "a", "b", "l", "e", "s", "/", "T", "e", "r", "m", "s">>]

CMU300a == [brand |-> <<"R", "o", "h", "d", "e", " ", "&", " ", "S", "c", "h", "w", "a", "r", "z">>, model |-> <<"C", "M", "U", "3", "0", "0">>,
            options |-> <<"B", "1", "2", "/", "B", "7", "6", "/", "B", "7", "8", "P", "C", "M", "C", "I", "A", "/", "K", "7", "0", "/", "K", "7", "1", "/", "K", "7", "5", "/", "K", "7", "6", "/", "K", "7", "7", "/", "K", "7", "8", "/", "K", "7", "9", "/">>]

CMU300b == [brand |-> <<"R", "o", "h", "d", "e", " ", "&", " ", "S", "c", "h", "w", "a", "r", "z">>, model |-> <<"C", "M", "U", "3", "0", "0">>,
            options |-> <<"B", "2", "1", "/", "K", "4", "1", "/", "P", "K", "3", "0">>]

Boonton == [brand |-> <<"B", "O", "O", "N", "T", "O", "N">>, model |-> <<"4", "5", "0", "0", "C">>, options |-> <<"0", "0", "6">>]

\* further rows: options naming the brand or the model, padded fields, no
\* options, nothing at all
OtherRows ==
    {[brand |-> <<"H", "P">>, model |-> <<"8", "A">>, options |-> <<"1", "6", "/", "8", "a", "/", "E", "/", "h", "p">>],
     [brand |-> <<" ", "H", "P", " ">>, model |-> <<"8", "A", "\t">>, options |-> <<" ", "1", "6", " ", "/", " ", "/", "E">>],
     [brand |-> <<"H", "P">>, model |-> <<"8", "A">>, options |-> <<>>],
     [brand |-> <<>>, model |-> <<>>, options |-> <<>>]}

Rows ==
    {E4980A, HP33120A, Agilent16555D, CMU300a, CMU300b, Boonton}
        \cup OtherRows
        \cup {[brand |-> <<"A">>, model |-> <<"x">>, options |-> o] :
                  o \in Strings(MaxOptLen)}

\* answers of the collaborator
ValidRecord ==
    Obj([normalized |->
             Obj([brand |-> Str(<<"X", "X">>), model |-> Str(<<"Y", "1">>),
                  options |-> StrList(<<<<"1", "6">>, <<"E">>>>)]),
         results |-> Arr(<<>>)])

RecordWithResults ==
    Obj([normalized |->
             Obj([brand |-> Str(<<"X", "X">>), model |-> Str(<<"Y", "1">>),
                  options |-> StrList(<<<<"1", "6">>>>)]),
         results |-> Arr(<<EmptyObj>>)])

JsonValues ==
    {ValidRecord, RecordWithResults, EmptyObj,
     Obj([normalized |-> EmptyObj]),
     Obj([normalized |->
              Obj([brand |-> Str(<<"X", "X">>), model |-> Str(<<"Y", "1">>),
                   options |-> Str(<<"1", "6", "/", "E">>)]),
          results |-> Arr(<<>>)]),
     Obj([normalized |-> Str(<<"x">>), results |-> Arr(<<>>)]),
     Obj([normalized |-> Arr(<<>>)]),
     Obj([normalized |-> Null]),
     Obj([results |-> Arr(<<>>)]),
     Arr(<<>>), Arr(<<Str(<<"n", "o", "r", "m", "a", "l", "i", "z", "e", "d">>)>>),
     Str(<<"n", "o", "r", "m", "a", "l", "i", "z", "e", "d">>), Str(<<"a", "b", "c">>), Num, Null}

Completions ==
    {[kind |-> "raise", content |-> [kind |-> "none", value |-> Null]]}
        \cup {[kind |-> "content", content |-> [kind |-> k, value |-> Null]] :
                  k \in {"none", "invalid"}}
        \cup {[kind |-> "content", content |-> [kind |-> "json", value |-> v]] :
                  v \in JsonValues}

NormInit ==
    /\ row \in Rows
    /\ api_key \in BOOLEAN
    /\ n_pc = "start"
    /\ completion = NoCompletion
    /\ llm_result = NoLlmResult
    /\ payload = Null
    /\ calls = 0
    /\ text = <<>>
    /\ pc = "idle"
    /\ slash_index = -1
    /\ current_pos = -1
    /\ options_end_index = -1
    /\ result = NoResult
    /\ raw_options = NoArg
    /\ options = <<>>
    /\ selected_index = -1
    /\ analysis_key = NoKey
    /\ analysis_payload = Null
    /\ displayed = Null

\* get_openai_client() is None: the payload is built locally
main_no_client ==
    /\ n_pc = "start"
    /\ ~api_key
    /\ payload' = set_brand_model(deterministic_payload(row),
                                  brand_parsed(row), model_parsed(row)).payload
    /\ n_pc' = "done"
    /\ UNCHANGED <<row, api_key, completion, llm_result, calls>>
    /\ UNCHANGED pvars
    /\ UNCHANGED uvars

\* client.chat.completions.create(...) answers or raises
chat_completions_create ==
    /\ n_pc = "start"
    /\ api_key
    /\ calls < MaxCalls
    /\ \E c \in Completions : completion' = c
    /\ calls' = calls + 1
    /\ n_pc' = "called"
    /\ UNCHANGED <<row, api_key, llm_result, payload>>
    /\ UNCHANGED pvars
    /\ UNCHANGED uvars

\* normalize_options_via_llm decodes the answer and returns, or lets the
\* exception of the call through
llm_return ==
    /\ n_pc = "called"
    /\ LET res == normalize_options_via_llm(completion)
       IN  /\ llm_result' = res
           /\ n_pc' = after_llm(res)
    /\ UNCHANGED <<row, api_key, completion, payload, calls>>
    /\ UNCHANGED pvars
    /\ UNCHANGED uvars

\* main sets brand and model, or its except clause builds the payload
main_finish ==
    /\ n_pc = "returned"
    /\ payload' = final_payload(row, llm_result)
    /\ n_pc' = "done"
    /\ UNCHANGED <<row, api_key, completion, llm_result, calls>>
    /\ UNCHANGED pvars
    /\ UNCHANGED uvars

NormNext ==
    \/ main_no_client
    \/ chat_completions_create
    \/ llm_return
    \/ main_finish

NormSpec == NormInit /\ [][NormNext]_vars


(***************************************************************************)
(* The page of main: selecting a table row and analysing it                *)
(***************************************************************************)

\* the columns of the rows of _get_hardcoded_data that main reads
data_lines ==
    <<
     [contact |-> "Alexander Pollak", eqModel |-> <<"S", "M", "A", "1", "0", "0", "B">>,
      eqBrand |-> <<"R", "o", "h", "d", "e", " ", "&", " ", "S", "c", "h", "w", "a", "r", "z">>,
      options |-> <<"B", "7", "1", "1", "/", "B", "8", "6", "/", "B", "9", "3", "/", "B", "3", "5">>],
     [contact |-> "Giampiero", eqModel |-> <<"N", "8", "9", "7", "6", "B">>,
      eqBrand |-> <<"A", "g", "i", "l", "e", "n", "t", " ", "H", "P", " ", "K", "e", "y", "s", "i", "g", "h", "t">>,
      options |-> <<"5", "4", "4", "/", "B", "2", "5", "/", "E", "P", "5", "/", "M", "T", "U", "/", "P", "C", "7", "/", "S", "S", "D", "/", "W", "7", "X", "/", "F", "S", "A", "/", "N", "F", "2", "/", "P", "4", "4", "/", "P", "F", "R", "/", "2", "F", "P", "/", "1", "F", "P", "/", "W", "7">>],
     [contact |-> "Guillermo Leon", eqModel |-> <<"4", "5", "0", "0", "C">>,
      eqBrand |-> <<"B", "O", "O", "N", "T", "O", "N">>,
      options |-> <<"0", "0", "6">>],
     [contact |-> "LYNN HOOVER", eqModel |-> <<"N", "5", "1", "7", "2", "B">>,
      eqBrand |-> <<"A", "g", "i", "l", "e", "n", "t", " ", "H", "P", " ", "K", "e", "y", "s", "i", "g", "h", "t">>,
      options |-> <<"0", "9", "9", "/", "1", "E", "A", "/", "4", "0", "3", "/", "5", "0", "6", "/", "6", "5", "3", "/", "6", "5", "5", "/", "6", "5", "7", "/", "F", "R", "Q", "/", "U", "N", "V", "/", "N", "7", "6", "3", "1", "E", "M", "B", "C">>],
     [contact |-> "Mustafa Al Shaikhli", eqModel |-> <<"M", "S", "2", "0", "9", "0", "A">>,
      eqBrand |-> <<"A", "n", "r", "i", "t", "s", "u">>,
      options |-> <<"0", "0", "3", "1", "/", "0", "0", "9", "0", "/", "0", "1", "0", "4", "/", "0", "1", "9", "9", "/", "0", "7", "1", "4", "/", "0", "8", "8", "3", "/", "0", "8", "8", "8">>],
     [contact |-> "Larry Meiners", eqModel |-> <<"E", "4", "9", "8", "0", "A">>,
      eqBrand |-> <<"A", "g", "i", "l", "e", "n", "t">>,
      options |-> <<"0", "0", "1", "/", "7", "1", "0", "/", "7", "1", "0">>],
     [contact |-> "Dan Hosking", eqModel |-> <<"T", "D", "S", "7", "4", "4", "A">>,
      eqBrand |-> <<"T", "e", "k", "t", "r", "o", "n", "i", "x">>,
      options |-> <<"1", "3", "/", "1", "F", "/", "1", "M", "/", "2", "F">>],
     [contact |-> "Christopher Reinhard", eqModel |-> <<"1", "6", "5", "5", "5", "D">>,
      eqBrand |-> <<"A", "g", "i", "l", "e", "n", "t">>,
      options |-> <<"W", " ", "C", "a", "b", "l", "e", "s", "/", "T", "e", "r", "m", "s">>],
     [contact |-> "Darious Clay", eqModel |-> <<"8", "5", "9", "6", "E">>,
      eqBrand |-> <<"A", "g", "i", "l", "e", "n", "t">>,
      options |-> <<"0", "0", "4", "/", "0", "4", "1", "/", "1", "0", "5", "/", "1", "5", "1", "/", "1", "6", "0">>],
     [contact |-> "Christopher Reinhard", eqModel |-> <<"C", "M", "U", "3", "0", "0">>,
      eqBrand |-> <<"R", "o", "h", "d", "e", " ", "&", " ", "S", "c", "h", "w", "a", "r", "z">>,
      options |-> <<"B", "1", "2", "/", "B", "7", "6", "/", "B", "7", "8", "P", "C", "M", "C", "I", "A", "/", "K", "7", "0", "/", "K", "7", "1", "/", "K", "7", "5", "/", "K", "7", "6", "/", "K", "7", "7", "/", "K", "7", "8", "/", "K", "7", "9", "/">>],
     [contact |-> "David Bither", eqModel |-> <<"C", "M", "U", "3", "0", "0">>,
      eqBrand |-> <<"R", "o", "h", "d", "e", " ", "&", " ", "S", "c", "h", "w", "a", "r", "z">>,
      options |-> <<"B", "1", "1", "/", "B", "2", "1", "/", "B", "7", "1", "/", "K", "3", "1", "/", "K", "3", "2", "/", "K", "3", "3", "/", "K", "3", "4", "/", "K", "3", "9", "/", "K", "4", "1">>],
     [contact |-> "Sandra Fletcher", eqModel |-> <<"C", "M", "U", "3", "0", "0">>,
      eqBrand |-> <<"R", "o", "h", "d", "e", " ", "&", " ", "S", "c", "h", "w", "a", "r", "z">>,
      options |-> <<"B", "2", "1", "/", "K", "4", "1", "/", "P", "K", "3", "0">>],
     [contact |-> "Jeron Powell", eqModel |-> <<"3", "3", "1", "2", "0", "A">>,
      eqBrand |-> <<"A", "g", "i", "l", "e", "n", "t", " ", "/", " ", "H", "P">>,
      options |-> <<"/", "0", "0", "1">>]
    >>

\* the radio label of a row: model, brand and contact name
display_name(line) == <<line.eqModel, line.eqBrand, line.contact>>

\* display_options.index(selected_display_option) - 1 for the label of the
\* row the user picks: the 0-based index of the first row with that label
index_of_choice(choice) ==
    LET same == {i \in 1..Len(data_lines) :
                     display_name(data_lines[i]) =
                         display_name(data_lines[choice])}
    IN  (CHOOSE i \in same : \A j \in same : i <= j) - 1

\* all_data_lines[selected_index]
selected_line(idx) == data_lines[idx + 1]

_extract_from_selected_line(line) ==
    [brand |-> line.eqBrand, model |-> line.eqModel, options |-> line.options]

\* f"{brand}|{model}" of the stripped brand and model columns
analysis_key_current(line) ==
    [none |-> FALSE,
     s |-> Strip(line.eqBrand) \o <<"|">> \o Strip(line.eqModel)]

\* f"{brand_parsed}|{model_parsed}", the key the analysis of a row stores
analysis_key_stored(line) ==
    LET r == _extract_from_selected_line(line)
    IN  [none |-> FALSE,
         s |-> brand_parsed(r) \o <<"|">> \o model_parsed(r)]

\* the payload the analysis of a row stores; API_KEY is empty, the client
\* is None and the payload is built locally
analysis_of(line) ==
    LET r == _extract_from_selected_line(line)
    IN  set_brand_model(deterministic_payload(r),
                        brand_parsed(r), model_parsed(r)).payload

\* the record a run of main shows for the row at idx, given the session
\* entries it ends with: the stored payload when the stored key is the
\* row's key, nothing otherwise
shown(idx, key, stored) ==
    IF idx # -1 /\ key = analysis_key_current(selected_line(idx))
    THEN stored
    ELSE Null

UiInit ==
    /\ selected_index = -1
    /\ analysis_key = NoKey
    /\ analysis_payload = Null
    /\ displayed = Null
    /\ row = NoRow
    /\ api_key = FALSE
    /\ n_pc = "idle"
    /\ completion = NoCompletion
    /\ llm_result = NoLlmResult
    /\ payload = Null
    /\ calls = 0
    /\ text = <<>>
    /\ pc = "idle"
    /\ slash_index = -1
    /\ current_pos = -1
    /\ options_end_index = -1
    /\ result = NoResult
    /\ raw_options = NoArg
    /\ options = <<>>

\* the user picks the placeholder or a row; main runs without a click
select_equipment ==
    /\ \E choice \in 0..Len(data_lines) :
           selected_index' =
               IF choice = 0 THEN -1 ELSE index_of_choice(choice)
    /\ displayed' = shown(selected_index', analysis_key, analysis_payload)
    /\ UNCHANGED <<analysis_key, analysis_payload>>
    /\ UNCHANGED nvars
    /\ UNCHANGED pvars

\* the user clicks Analyze for the selected row; main analyses it, stores
\* key and payload and shows them
click_analyze ==
    /\ selected_index # -1
    /\ analysis_key' = analysis_key_stored(selected_line(selected_index))
    /\ analysis_payload' = analysis_of(selected_line(selected_index))
    /\ displayed' = shown(selected_index, analysis_key', analysis_payload')
    /\ UNCHANGED selected_index
    /\ UNCHANGED nvars
    /\ UNCHANGED pvars

UiNext ==
    \/ select_equipment
    \/ click_analyze

UiSpec == UiInit /\ [][UiNext]_vars

(***************************************************************************)
(* Vocabulary of the properties                                            *)
(***************************************************************************)

Min(S) == CHOOSE i \in S : \A j \in S : i <= j

Max(S) == CHOOSE i \in S : \A j \in S : i >= j

\* 0-based indices of the slashes of t
SlashIndices(t) == {i \in 0..(Len(t) - 1) : At(t, i) = "/"}

HasSlash(t) == SlashIndices(t) # {}

\* 0-based indices of the whitespace characters after the last slash of t
WhiteSpaceAfterLastSlash(t) ==
    {i \in (Max(SlashIndices(t)) + 1)..(Len(t) - 1) : IsSpace(At(t, i))}

\* the text brand and model are searched in
BeforeFirstSlash(t) ==
    IF HasSlash(t) THEN Slice(t, 0, Min(SlashIndices(t))) ELSE t

\* tokens that are no documented stop word
Meaningful(words) ==
    SelectSeq(words, LAMBDA w : Lower(w) \notin IgnoreWords)

\* t is '<brand> <model> /o1/.../on' followed by a space and trailing words:
\* two meaningful tokens, whitespace, then a span of non-empty options free
\* of whitespace, ended by a space
BrandModelOptionsForm(t) ==
    /\ HasSlash(t)
    /\ WhiteSpaceAfterLastSlash(t) # {}
    /\ LET first == Min(SlashIndices(t))
           w == Min(WhiteSpaceAfterLastSlash(t))
       IN  /\ At(t, w) = " "
           /\ first > 0 /\ IsSpace(At(t, first - 1))
           /\ Len(Split(Slice(t, 0, first))) = 2
           /\ Len(Meaningful(Split(Slice(t, 0, first)))) = 2
           /\ \A i \in first..(w - 1) : ~IsSpace(At(t, i))
           /\ \A i \in first..(w - 1) :
                  At(t, i) = "/" => At(t, i + 1) \notin {"/", " "}

\* the options span of such a text, from the first slash up to the space
OptionsSpan(t) ==
    Slice(t, Min(SlashIndices(t)), Min(WhiteSpaceAfterLastSlash(t)))

\* 1-based positions at which a slash-delimited fragment of x starts
FragmentStarts(x) == {1} \cup {i + 1 : i \in {j \in 1..Len(x) : x[j] = "/"}}

\* the fragment starting at s, without its surrounding whitespace
TrimmedFragment(x, s) ==
    LET nxt == {i \in s..Len(x) : x[i] = "/"}
        e == IF nxt = {} THEN Len(x) ELSE Min(nxt) - 1
        solid == {i \in s..e : ~IsSpace(x[i])}
    IN  IF solid = {} THEN <<>> ELSE SubSeq(x, Min(solid), Max(solid))

\* the non-empty trimmed fragments of x, left to right
Fragments(x) ==
    LET kept == {s \in FragmentStarts(x) : TrimmedFragment(x, s) # <<>>}
    IN  [k \in 1..Cardinality(kept) |->
            TrimmedFragment(x,
                CHOOSE s \in kept : Cardinality({u \in kept : u < s}) = k - 1)]

(***************************************************************************)
(* Properties                                                              *)
(***************************************************************************)

\* C1: for a text '<brand> <model> /o1/.../on' followed by a space and
\* slash-free trailing words, parse_query returns the whole span
\* '/o1/.../on' as raw_options, the last option included; for the Agilent
\* query it returns Agilent, 8116A and '/160/EEC/PLK/UK6'.
C1_LastOptionInSpan ==
    pc = "parsed" =>
        /\ BrandModelOptionsForm(stripped) =>
               result.raw_options = OptionsSpan(stripped)
        /\ text = AgilentQuery =>
               result = [brand |-> <<"A", "g", "i", "l", "e", "n", "t">>, model |-> <<"8", "1", "1", "6", "A">>,
                         raw_options |-> <<"/", "1", "6", "0", "/", "E", "E", "C", "/", "P", "L", "K", "/", "U", "K", "6">>]

\* C2: end to end, a text '<brand> <model> /o1/.../on <trailing words>'
\* yields brand, model and the complete ordered option list [o1,...,on];
\* the Agilent query yields Agilent, 8116A and [160, EEC, PLK, UK6].
C2_EndToEndOptions ==
    pc = "extracted" =>
        /\ BrandModelOptionsForm(stripped) =>
               /\ result.brand = Split(stripped)[1]
               /\ result.model = Split(stripped)[2]
               /\ options = Fragments(OptionsSpan(stripped))
        /\ text = AgilentQuery =>
               /\ result.brand = <<"A", "g", "i", "l", "e", "n", "t">>
               /\ result.model = <<"8", "1", "1", "6", "A">>
               /\ options = <<<<"1", "6", "0">>, <<"E", "E", "C">>, <<"P", "L", "K">>, <<"U", "K", "6">>>>

\* C3: for the query 'Agilent 8116A with options like 160/EEC/PLK/UK6
\* please deliver quickly' parse_query returns Agilent, 8116A and the
\* raw_options '160/EEC/PLK/UK6', starting at the option attached to the
\* first slash.
C3_AttachedFirstOption ==
    (pc = "parsed" /\ text = AgilentWithQuery) =>
        result = [brand |-> <<"A", "g", "i", "l", "e", "n", "t">>, model |-> <<"8", "1", "1", "6", "A">>,
                  raw_options |-> <<"1", "6", "0", "/", "E", "E", "C", "/", "P", "L", "K", "/", "U", "K", "6">>]

\* C4: when whitespace (space, tab or newline) and further words follow the
\* last slash-delimited option, raw_options ends no later than that
\* whitespace: none of the trailing words is part of it.
C4_NoTrailingText ==
    (pc = "parsed" /\ HasSlash(stripped)
        /\ WhiteSpaceAfterLastSlash(stripped) # {}) =>
        Len(result.raw_options) <=
            Min(WhiteSpaceAfterLastSlash(stripped))
                - Min(SlashIndices(stripped))

\* C5: no member of the documented stop-word set is returned as brand or
\* as model, on the slash path and on the no-slash path.
C5_DocumentedStopWordsExcluded ==
    pc = "parsed" =>
        /\ Lower(result.brand) \notin IgnoreWords
        /\ Lower(result.model) \notin IgnoreWords

\* C6: for a text without a slash, brand is the first whitespace-separated
\* token that is no stop word, model the second, and raw_options is empty;
\* the Tektronix query gives Tektronix, TDS744A and ''.
C6_NoSlashPath ==
    (pc = "parsed" /\ ~HasSlash(stripped)) =>
        /\ LET m == Meaningful(Split(stripped))
           IN  /\ result.brand = (IF Len(m) >= 1 THEN m[1] ELSE <<>>)
               /\ result.model = (IF Len(m) >= 2 THEN m[2] ELSE <<>>)
               /\ result.raw_options = <<>>
        /\ text = TektronixQuery =>
               result = [brand |-> <<"T", "e", "k", "t", "r", "o", "n", "i", "x">>, model |-> <<"T", "D", "S", "7", "4", "4", "A">>,
                         raw_options |-> <<>>]

\* C7: a token whose lower-cased form is a stop word is neither brand nor
\* model, whatever its casing, and the brand and model returned are tokens
\* of the input with the casing they have there.
C7_CaseInsensitiveFilter ==
    pc = "parsed" =>
        LET toks == Split(BeforeFirstSlash(stripped))
        IN  /\ \A i \in 1..Len(toks) :
                   Lower(toks[i]) \in IgnoreWords =>
                       toks[i] \notin {result.brand, result.model}
            /\ result.brand # <<>> =>
                   \E i \in 1..Len(toks) : toks[i] = result.brand
            /\ result.model # <<>> =>
                   \E i \in 1..Len(toks) : toks[i] = result.model

\* C8: degenerate input gives empty fields: brand is '' when no token
\* before the first slash is meaningful (empty text, whitespace only, stop
\* words only) and model is '' when fewer than two are.
C8_DegenerateInput ==
    pc = "parsed" =>
        LET cands == Meaningful(Split(BeforeFirstSlash(stripped)))
        IN  /\ Len(cands) = 0 => result.brand = <<>>
            /\ Len(cands) < 2 => result.model = <<>>

\* C9: split_options_deterministic(x) is exactly the sequence of the
\* whitespace-trimmed slash-delimited fragments of x that are non-empty
\* after trimming, in their order in x, duplicates kept.
C9_SplitIsFragments ==
    (pc \in {"split", "extracted"} /\ ~raw_options.none) =>
        /\ options = Fragments(raw_options.s)
        /\ \A i \in 1..Len(options) : options[i] # <<>>

\* a split that trimmed two fragments to the same option and kept both
C9_Witness ==
    /\ pc = "split"
    /\ ~raw_options.none
    /\ \E i \in 1..Len(raw_options.s) : IsSpace(raw_options.s[i])
    /\ Len(SplitOn(raw_options.s, "/")) = 3
    /\ Len(options) = 2
    /\ options[1] = options[2]

\* C10: split_options_deterministic returns the empty sequence for '', for
\* None and for every str made only of slashes and whitespace.
C10_SplitTotal ==
    (pc \in {"split", "extracted"}
        /\ (\/ raw_options.none
            \/ \A i \in 1..Len(raw_options.s) :
                   raw_options.s[i] = "/" \/ IsSpace(raw_options.s[i]))) =>
        options = <<>>

\* a split of a str made of slashes and whitespace, both present
C10_Witness ==
    /\ pc = "split"
    /\ ~raw_options.none
    /\ \E i \in 1..Len(raw_options.s) : raw_options.s[i] = "/"
    /\ \E i \in 1..Len(raw_options.s) : IsSpace(raw_options.s[i])
    /\ \A i \in 1..Len(raw_options.s) :
           raw_options.s[i] = "/" \/ IsSpace(raw_options.s[i])
    /\ options = <<>>

\* the payload is a NormalizedRecord: a dict with a dict 'normalized' of
\* str brand, str model and a list 'options' of str, and a list 'results'
WellFormedRecord(p) ==
    /\ p.type = "object"
    /\ {"normalized", "results"} \subseteq DOMAIN p.val
    /\ p.val.results.type = "array"
    /\ p.val.normalized.type = "object"
    /\ {"brand", "model", "options"} \subseteq DOMAIN p.val.normalized.val
    /\ p.val.normalized.val.brand.type = "string"
    /\ p.val.normalized.val.model.type = "string"
    /\ p.val.normalized.val.options.type = "array"
    /\ \A i \in 1..Len(p.val.normalized.val.options.val) :
           p.val.normalized.val.options.val[i].type = "string"

\* the answer of the collaborator cannot be read as the record shape: the
\* call raised, the content is empty or no JSON, or the JSON has no
\* 'normalized' key
Unparsable(c) ==
    \/ c.kind = "raise"
    \/ c.content.kind \in {"none", "invalid"}
    \/ /\ c.content.kind = "json"
       /\ ~(/\ c.content.value.type = "object"
            /\ "normalized" \in DOMAIN c.content.value.val)

\* the record with the given brand, model and options and no results
Record(b, m, opts) ==
    Obj([normalized |->
             Obj([brand |-> Str(b), model |-> Str(m),
                  options |-> StrList(opts)]),
         results |-> Arr(<<>>)])

\* opt names neither the brand nor the model of row r
NotHint(r, opt) ==
    Lower(opt) \notin {Lower(Strip(r.brand)), Lower(Strip(r.model))}

\* C11: on every path of the normalisation (no client, valid answer,
\* malformed answer, failed call) the final record carries the brand and
\* the model of the selected row, whatever the collaborator answered.
C11_HintsEnforced ==
    n_pc = "done" =>
        /\ payload.type = "object"
        /\ "normalized" \in DOMAIN payload.val
        /\ payload.val.normalized.type = "object"
        /\ {"brand", "model"} \subseteq DOMAIN payload.val.normalized.val
        /\ payload.val.normalized.val.brand = Str(Strip(row.brand))
        /\ payload.val.normalized.val.model = Str(Strip(row.model))

\* the collaborator answered a valid record naming another brand and model
C11_Witness ==
    /\ n_pc = "done"
    /\ calls = 1
    /\ completion.content.kind = "json"
    /\ completion.content.value = ValidRecord
    /\ Strip(row.brand) # <<"X", "X">>
    /\ payload.val.normalized.val.brand = Str(Strip(row.brand))

\* C12: whatever the collaborator answers, the final record is well
\* formed: 'normalized' with str brand, str model and a list of str
\* 'options', and a list 'results'.
C12_AlwaysWellFormed == n_pc = "done" => WellFormedRecord(payload)

\* C13: when the call to the collaborator fails, the caller gets the
\* record of the no-client path for the same row, options included.
C13_FailureFallsBack ==
    (n_pc = "done" /\ llm_result.raised) =>
        payload = deterministic_payload(row)

\* C14: when the answer cannot be read as the record shape, or the call
\* itself errors, normalize_options_via_llm returns exactly the fallback
\* record and does not raise.
C14_LlmStepFallback ==
    (n_pc \in {"returned", "done"} /\ calls > 0 /\ Unparsable(completion)) =>
        /\ ~llm_result.raised
        /\ llm_result.data = Fallback

\* C15 as stated: without a client the options are the split of the
\* raw_options that parse_query finds in the combined brand/model/options
\* text, less the tokens naming the brand or the model.
C15_OptionsFromParser ==
    (n_pc = "done" /\ ~api_key) =>
        LET combined == Strip(row.brand) \o <<" ">> \o Strip(row.model)
                            \o <<" ">> \o row.options
            tokens == split_options_deterministic(
                          [none |-> FALSE,
                           s |-> parse_query(combined).raw_options])
        IN  payload = Record(Strip(row.brand), Strip(row.model),
                             SelectSeq(tokens, LAMBDA o : NotHint(row, o)))

\* C15 amended: without a client the record is {brand, model, options,
\* results: []} with the row's brand and model and, as options, the
\* non-empty trimmed slash-delimited fragments of the row's options text
\* that name neither the brand nor the model; parse_query is not run.
C15_NoClientRecord ==
    (n_pc = "done" /\ ~api_key) =>
        LET frags == Fragments(row.options)
            kept == SelectSeq([i \in 1..Len(frags) |-> frags[i]],
                              LAMBDA o : NotHint(row, o))
        IN  payload = Record(Strip(row.brand), Strip(row.model), kept)

\* a row without client whose options name its brand or model beside
\* options that stay
C15_Witness ==
    /\ n_pc = "done"
    /\ ~api_key
    /\ Len(payload.val.normalized.val.options.val) >= 2
    /\ \E i \in 1..Len(Fragments(row.options)) :
           ~NotHint(row, Fragments(row.options)[i])

\* C16: 'results' of the final record is the empty sequence on every
\* path.
C16_ResultsEmpty ==
    n_pc = "done" =>
        /\ payload.type = "object"
        /\ "results" \in DOMAIN payload.val
        /\ payload.val.results = Arr(<<>>)

\* how far a run of the step has come
Progress(p) ==
    CASE p = "start" -> 0 [] p = "called" -> 1 [] p = "returned" -> 2
      [] p = "done" -> 3

\* C18: the collaborator is invoked at most once per run, also after a
\* failed or malformed answer; every step of a run brings it nearer to its
\* end (nothing is repeated), and at its end the run holds a record.
C18_OneCallThenRecord ==
    /\ [](/\ calls <= 1
          /\ n_pc = "done" =>
                 (payload.type = "object" /\ "normalized" \in DOMAIN payload.val))
    /\ [][Progress(n_pc') > Progress(n_pc)]_vars

\* a run that ended after its one call raised
C18_Witness ==
    /\ n_pc = "done"
    /\ calls = 1
    /\ llm_result.raised
    /\ payload.type = "object"

\* C19: for a text with a slash, brand and model are those parse_query
\* returns for the slash-free text before the first slash; the two paths
\* filter with the same words.
C19_PathsAgree ==
    /\ ConnectingWordsSlash = ConnectingWordsNoSlash
    /\ (pc = "parsed" /\ HasSlash(stripped)) =>
           LET p == parse_query(BeforeFirstSlash(stripped))
           IN  /\ result.brand = p.brand
               /\ result.model = p.model

\* a slash text with a connecting word before brand and model
C19_Witness ==
    /\ pc = "parsed"
    /\ HasSlash(stripped)
    /\ result.brand # <<>>
    /\ result.model # <<>>
    /\ \E i \in 1..Len(Split(BeforeFirstSlash(stripped))) :
           Lower(Split(BeforeFirstSlash(stripped))[i]) = <<"w", "i", "t", "h">>

\* C20: when no whitespace follows the last slash of the trimmed text,
\* raw_options is the whole substring from the first slash to the end.
C20_EndOfString ==
    (pc = "parsed" /\ HasSlash(stripped)
        /\ WhiteSpaceAfterLastSlash(stripped) = {}) =>
        result.raw_options =
            Slice(stripped, Min(SlashIndices(stripped)), Len(stripped))

\* a text ending in its last option, brand and model before the span
C20_Witness ==
    /\ pc = "parsed"
    /\ HasSlash(stripped)
    /\ WhiteSpaceAfterLastSlash(stripped) = {}
    /\ stripped[Len(stripped)] # "/"
    /\ result.model # <<>>
    /\ Len(result.raw_options) >= 4

\* C21: for a text with a slash, raw_options is the contiguous substring
\* of the trimmed text that begins at its first slash; the word before the
\* first slash, attached to it or not, is no part of raw_options.
C21_StartsAtFirstSlash ==
    (pc = "parsed" /\ HasSlash(stripped)) =>
        LET first == Min(SlashIndices(stripped))
        IN  /\ Len(result.raw_options) >= 1
            /\ first + Len(result.raw_options) <= Len(stripped)
            /\ result.raw_options =
                   Slice(stripped, first, first + Len(result.raw_options))

\* a text whose first option is attached in front of the first slash
C21_Witness ==
    /\ pc = "parsed"
    /\ HasSlash(stripped)
    /\ Min(SlashIndices(stripped)) > 0
    /\ ~IsSpace(At(stripped, Min(SlashIndices(stripped)) - 1))
    /\ result.model # <<>>
    /\ Len(result.raw_options) >= 2

\* C22: without a client no element of the record's options equals the
\* row's brand or model, case ignored, and the options are all the other
\* non-empty trimmed slash-delimited fragments of the row's options text,
\* in their order.
C22_HintsFilteredOrderKept ==
    (n_pc = "done" /\ ~api_key) =>
        LET opts == payload.val.normalized.val.options.val
            frags == Fragments(row.options)
            others == {i \in 1..Len(frags) : NotHint(row, frags[i])}
        IN  /\ \A i \in 1..Len(opts) : NotHint(row, opts[i].val)
            /\ Len(opts) = Cardinality(others)
            /\ \A i \in others :
                   opts[Cardinality({j \in others : j <= i})] = Str(frags[i])

\* a row whose options name its model and keep two others around it
C22_Witness ==
    /\ n_pc = "done"
    /\ ~api_key
    /\ Len(payload.val.normalized.val.options.val) >= 2
    /\ \E i \in 1..Len(Fragments(row.options)) :
           Lower(Fragments(row.options)[i]) = Lower(Strip(row.model))

\* C23: the boundary scan ends: each slash found moves the scan position
\* strictly forward, the loop is left through the branch that finds no
\* further slash, and the boundary it sets lies after the first slash and
\* not after the end of the trimmed text.
C23_ScanTerminates ==
    /\ [](/\ pc = "scan" =>
                 (current_pos < Len(stripped) /\ current_pos >= slash_index)
          /\ pc = "extract" =>
                 (/\ Find(stripped, "/", current_pos + 1) = -1
                  /\ options_end_index > slash_index
                  /\ options_end_index <= Len(stripped)))
    /\ [][(pc = "scan" /\ pc' = "scan") => current_pos' > current_pos]_vars

\* the scan has moved on from the first slash and set the boundary right
\* after the last one, before the end of the text
C23_Witness ==
    /\ pc = "extract"
    /\ current_pos > slash_index
    /\ options_end_index = current_pos + 1
    /\ options_end_index < Len(stripped)

\* C24: raw_options is empty exactly when the trimmed text has no slash;
\* with a slash it is non-empty and its first character is the slash.
C24_EmptyIffNoSlash ==
    pc = "parsed" =>
        /\ (result.raw_options = <<>>) <=> ~HasSlash(stripped)
        /\ HasSlash(stripped) => Head(result.raw_options) = "/"

\* a text that is nothing but one slash between words
C24_Witness ==
    /\ pc = "parsed"
    /\ Cardinality(SlashIndices(stripped)) = 1
    /\ result.raw_options = <<"/">>
    /\ Len(stripped) > 1

\* C25: whenever the page shows an analysis for the selected row, the
\* record shown was computed from that row: its brand and model are the
\* row's and its options are the row's own options, also when another row
\* with the same brand and model was analysed before.
C25_ShownIsSelectedRow ==
    (selected_index # -1 /\ displayed # Null) =>
        LET line == selected_line(selected_index)
            r == _extract_from_selected_line(line)
            frags == Fragments(line.options)
            kept == SelectSeq([i \in 1..Len(frags) |-> frags[i]],
                              LAMBDA o : NotHint(r, o))
        IN  displayed = Record(Strip(line.eqBrand), Strip(line.eqModel), kept)

====
